---- MODULE Spec2Model ----
(***************************************************************************)
(* Conversation orchestrator of the outbound voice-call system:            *)
(* CallManager (startCall, ensureCallIsTracked, processSpeechInput,        *)
(* completeCall, generateCallSummary, processPostCallActions) and the      *)
(* webhooks that drive it.                                                 *)
(*                                                                         *)
(* Every async method is a task.  A task alternates between                *)
(*   - an external step ("...IO"): the awaited service call takes effect   *)
(*     and its result (or its exception) is captured in the task, and      *)
(*   - a synchronous segment ("...Resume"): the code from the resumption   *)
(*     of the await up to the next await, which runs atomically on the     *)
(*     single JavaScript thread.                                           *)
(* Sessions are objects with identity: the registry maps a call id to a    *)
(* reference into the heap, and a task keeps the reference it obtained.    *)
(*                                                                         *)
(* Text is a sequence of tokens; a token is a word, a phrase, a phone-like *)
(* run or an e-mail address.                                               *)
(***************************************************************************)
EXTENDS Integers, Sequences, FiniteSets, TLC

\* ---------------------------------------------------------------- bounds
MaxTurns == 2          \* processSpeechInput invocations started (concurrent specification)
MaxSeqTurns == 1       \* processSpeechInput invocations started (sequential specification)
MaxPrior == 3          \* exchanges the call has had before (sequential specification)
MaxCompTurns == 1      \* processSpeechInput invocations started (completion specification)
MaxStatusEvents == 1   \* provider call-status events received
MaxClock == 1          \* ticks of the wall clock
MaxHooks == 2          \* answer and intro webhooks received
MaxRouteTurns == 1     \* speech webhooks received (route specification)
MaxFrameTurns == 1     \* processSpeechInput invocations started (two-call specification)

\* ------------------------------------------------------------ identifiers
CallIds == {"c1"}
FrameCallIds == {"c1", "c2"}   \* the calls of the two-call specification
TurnIds == {1, 2}
CompIds == {1, 2}

\* ------------------------------------------------------------------- text
PhoneTokens == {"98765 43210", "91234-56789"}
EmailTokens == {"a@x.io", "b@y.io"}

\* String.prototype.toLowerCase on one token
LowerTok(tok) ==
  CASE tok = "Not Interested" -> "not interested"
    [] tok = "Hang Up" -> "hang up"
    [] tok = "Goodbye" -> "goodbye"
    [] OTHER -> tok

ToLowerCase(text) == [i \in 1..Len(text) |-> LowerTok(text[i])]

\* String.prototype.includes for a phrase
Includes(text, phrase) == \E i \in 1..Len(text) : text[i] = phrase

\* replace(/\D/g, '') on a phone-like run
Digits(tok) ==
  CASE tok = "98765 43210" -> "9876543210"
    [] tok = "91234-56789" -> "9123456789"
    [] OTHER -> ""

\* JavaScript a || b on values whose falsy form is ""
Or(a, b) == IF a # "" THEN a ELSE b

RECURSIVE FirstIn(_, _)
\* first token of text that lies in set S, "" when there is none (String.match)
FirstIn(text, S) ==
  IF text = <<>> THEN ""
  ELSE IF Head(text) \in S THEN Head(text) ELSE FirstIn(Tail(text), S)

\* directSpeechService.extractContactInfo: first phone-like run and first e-mail
ExtractContactInfo(text) ==
  [whatsapp |-> Digits(FirstIn(text, PhoneTokens)),
   email    |-> FirstIn(text, EmailTokens)]

RECURSIVE JoinContents(_)
\* conversationHistory.map(turn => turn.content).join(' ')
JoinContents(history) ==
  IF history = <<>> THEN <<>>
  ELSE Head(history).content \o JoinContents(Tail(history))

RECURSIVE FromFirst(_, _)
\* the text from its first token that lies in set S on, <<>> when there is none
FromFirst(text, S) ==
  IF text = <<>> THEN <<>>
  ELSE IF Head(text) \in S THEN text ELSE FromFirst(Tail(text), S)

RECURSIVE DigitRun(_)
\* replace(/\D/g, '') on the match of /(\+?[\d\s\-\(\)]{10,})/ at the head of
\* text: phone-like runs that follow each other, with the separating spaces,
\* are one match
DigitRun(text) ==
  IF text = <<>> THEN ""
  ELSE IF Head(text) \in PhoneTokens
         THEN Digits(Head(text)) \o DigitRun(Tail(text))
         ELSE ""

\* the extraction run over the last entry of the history only
PostCallExtract_LastUtterance(history) ==
  IF history = <<>> THEN [whatsapp |-> "", email |-> ""]
  ELSE [whatsapp |-> DigitRun(FromFirst(history[Len(history)].content, PhoneTokens)),
        email    |-> FirstIn(history[Len(history)].content, EmailTokens)]

\* the two regular expressions of processPostCallActions on the joined text
PostCallExtract(history) ==
  [whatsapp |-> DigitRun(FromFirst(JoinContents(history), PhoneTokens)),
   email    |-> FirstIn(JoinContents(history), EmailTokens)]

\* Array.prototype.slice(-n)
SliceLast(s, n) == IF Len(s) <= n THEN s ELSE SubSeq(s, Len(s) - n + 1, Len(s))

\* the utterances of the specification with consecutive invocations
SeqUtterances ==
  { <<"hello">>,
    <<"98765 43210", "a@x.io">>,
    <<"91234-56789">>,
    <<"Not Interested">>,
    <<"Hang Up">> }

\* the utterances of the specifications with concurrent invocations
FewUtterances ==
  { <<"98765 43210", "a@x.io">>, <<"91234-56789">> }

\* CallDuration of the provider's status event: absent (-1), "0", "7"
Durations == {-1, 0, 7}

Replies == { <<"tell me more">>, <<"Goodbye">>, <<"thank you for your time">> }

\* what the speech webhooks end up with after recognition and transcription:
\* nothing (<<>>, the empty string) or an utterance
HeardTexts == { <<>>, <<"hello">>, <<"91234-56789">> }

\* ------------------------------------------------------------- directives
GenericClosing == "Thank you for your time. Goodbye."
SynthesisApology == "I apologize, there was a technical issue. We will call you back shortly."
CaughtApology == "I apologize, there was a technical issue. Thank you for your time."
SummaryFallback == "Call completed - summary generation failed"

NoTwiml == [kind |-> "none", say |-> "", action |-> ""]
HangupText(text) == [kind |-> "hangup", say |-> text, action |-> ""]
HangupAudio == [kind |-> "hangup", say |-> "audio", action |-> ""]
GatherAudio(callId) == [kind |-> "gather", say |-> "audio", action |-> callId]
GatherText(text, callId) == [kind |-> "gather", say |-> text, action |-> callId]

\* lines of the webhook routes
AnswerError == "Sorry, there was an error. Please try again later."
IntroApology == "I apologize, there was a technical issue. Please try again later."
Reprompt == "I'm here. Please speak when you're ready."
DirectClosing == "I understand. Thank you for your time. Have a great day!"

\* program constants
EndTurnCount == 8
HistoryWindow == 4

\* the termination policy with the turn count compared by > instead of >=
ShouldEndCall_LateCount(hasContactInfo, historyLength, aiResponse, speechText) ==
  \/ /\ hasContactInfo.whatsapp # "" /\ hasContactInfo.email # ""
     /\ \/ historyLength > EndTurnCount
        \/ Includes(ToLowerCase(aiResponse), "thank you for your time")
        \/ Includes(ToLowerCase(aiResponse), "goodbye")
  \/ Includes(ToLowerCase(speechText), "not interested")
  \/ Includes(ToLowerCase(speechText), "hang up")

\* the termination policy with one known contact field taken for both
ShouldEndCall_AnyField(hasContactInfo, historyLength, aiResponse, speechText) ==
  \/ /\ hasContactInfo.whatsapp # "" \/ hasContactInfo.email # ""
     /\ \/ historyLength >= EndTurnCount
        \/ Includes(ToLowerCase(aiResponse), "thank you for your time")
        \/ Includes(ToLowerCase(aiResponse), "goodbye")
  \/ Includes(ToLowerCase(speechText), "not interested")
  \/ Includes(ToLowerCase(speechText), "hang up")

\* termination policy of processSpeechInput
ShouldEndCall(hasContactInfo, historyLength, aiResponse, speechText) ==
  \/ /\ hasContactInfo.whatsapp # "" /\ hasContactInfo.email # ""
     /\ \/ historyLength >= EndTurnCount
        \/ Includes(ToLowerCase(aiResponse), "thank you for your time")
        \/ Includes(ToLowerCase(aiResponse), "goodbye")
  \/ Includes(ToLowerCase(speechText), "not interested")
  \/ Includes(ToLowerCase(speechText), "hang up")

\* ------------------------------------------------------------------ state
VARIABLES
  activeCalls,   \* CallManager.activeCalls: call id -> session reference, 0 when absent
  heap,          \* the ActiveCall objects ever created, by reference
  calls,         \* durable call records (storage)
  callMessages,  \* durable conversation-message log (storage)
  campaignExists,\* whether storage holds the campaign of the calls
  turn,          \* processSpeechInput invocations
  comp,          \* completeCall invocations
  timers,        \* pending setTimeout(() => completeCall(callId)) callbacks per call
  now,           \* wall clock, in seconds
  counters       \* bookkeeping of what has happened so far

vars == <<activeCalls, heap, calls, callMessages, campaignExists, turn, comp,
          timers, now, counters>>

NoContact == [whatsapp |-> "", email |-> ""]

NoRecord ==
  [status |-> "missing", startTime |-> 0, extractedWhatsapp |-> "",
   extractedEmail |-> "", conversationSummary |-> "", whatsappSent |-> FALSE,
   duration |-> -1]

\* storage.createCall({... status: 'active', startTime: new Date()})
NewRecord(status) == [NoRecord EXCEPT !.status = status]

\* the ActiveCall literal built by startCall, ensureCallIsTracked and reconstruction
NewSession(callId, startTime) ==
  [id |-> callId, conversationHistory |-> <<>>, status |-> "active",
   startTime |-> startTime]

Turn(role, content) == [role |-> role, content |-> content, timestamp |-> now]

IdleTurn ==
  [pc |-> "idle", route |-> "", callId |-> "", speechText |-> <<>>, activeCall |-> 0,
   reconstructed |-> FALSE, dbCall |-> NoRecord, contactInfo |-> NoContact,
   hasContactInfo |-> NoContact, genHistory |-> <<>>, aiResponse |-> <<>>,
   appended |-> FALSE, replied |-> FALSE, shouldEndCall |-> FALSE,
   ttsOk |-> FALSE, broadcastOk |-> TRUE, failed |-> "", twiml |-> NoTwiml,
   success |-> FALSE]

IdleComp ==
  [pc |-> "idle", callId |-> "", supplied |-> -1, duration |-> -1, activeCall |-> 0,
   summary |-> "", extracted |-> NoContact, origin |-> "", after |-> "",
   wrote |-> FALSE, sent |-> FALSE, failed |-> ""]

NoCounters ==
  [turnsStarted |-> 0, hooksStarted |-> 0, statusEvents |-> 0, completionsStarted |-> 0,
   lastFinished |-> "", summaryGenerations |-> 0, followUpsSent |-> 0]

\* The call of the behaviour was created by startCall (record active, session
\* registered with an empty history), or the process restarted after that
\* (record active, registry empty), or the call was completed earlier, or
\* startCall failed at the provider (record failed, nothing registered), or the
\* id is unknown to storage.  The campaign
\* of the call may have been deleted since (DELETE /api/campaigns/:id).
Init ==
  /\ \E st \in {"active", "completed", "failed", "missing"}, tracked \in BOOLEAN :
       /\ tracked => st = "active"
       /\ calls = [c \in CallIds |-> NewRecord(st)]
       /\ heap = IF tracked THEN <<NewSession("c1", 0)>> ELSE <<>>
       /\ activeCalls = [c \in CallIds |-> IF tracked THEN 1 ELSE 0]
  /\ callMessages = [c \in CallIds |-> <<>>]
  /\ campaignExists \in BOOLEAN
  /\ turn = [t \in TurnIds |-> IdleTurn]
  /\ comp = [k \in CompIds |-> IdleComp]
  /\ timers = [c \in CallIds |-> 0]
  /\ now = 0
  /\ counters = NoCounters

RECURSIVE PriorHistory(_)
\* the history after n exchanges in which the caller gave no contact details
PriorHistory(n) ==
  IF n = 0 THEN <<>>
  ELSE PriorHistory(n - 1) \o
         << [role |-> "user", content |-> <<"hello">>, timestamp |-> 0],
            [role |-> "assistant", content |-> <<"tell me more">>, timestamp |-> 0] >>

\* the conversation-message log of a history
Logged(history) == [i \in 1..Len(history) |->
                      [role |-> history[i].role, content |-> history[i].content]]

\* contact fields persisted before the process restarted
PriorContacts ==
  { NoContact,
    [whatsapp |-> "9123456789", email |-> ""],
    [whatsapp |-> "9123456789", email |-> "b@y.io"] }

\* The call is in the middle of its conversation: its contact fields were
\* persisted (or not) before a restart, the session was registered again and has
\* had n exchanges without contact details since; the last of them has scheduled
\* a completion when the termination policy ended the call on it.
InitSeq ==
  /\ \E n \in 0..MaxPrior, known \in PriorContacts, tracked \in BOOLEAN :
       /\ tracked \/ n = 0
       /\ activeCalls = [c \in CallIds |-> IF tracked THEN 1 ELSE 0]
       /\ calls = [c \in CallIds |->
                     [NewRecord("active") EXCEPT !.extractedWhatsapp = known.whatsapp,
                                                 !.extractedEmail = known.email]]
       /\ heap = IF tracked
                   THEN << [NewSession("c1", 0) EXCEPT
                              !.conversationHistory = PriorHistory(n)] >>
                   ELSE <<>>
       /\ callMessages = [c \in CallIds |-> Logged(PriorHistory(n))]
       /\ timers = [c \in CallIds |->
                      IF n > 0 /\ ShouldEndCall(known, 2 * n, <<"tell me more">>, <<"hello">>)
                        THEN 1 ELSE 0]
  /\ campaignExists = TRUE
  /\ turn = [t \in TurnIds |-> IdleTurn]
  /\ comp = [k \in CompIds |-> IdleComp]
  /\ now = 0
  /\ counters = NoCounters

\* -------------------------------------------------------------- environment
\* the wall clock advances
Tick ==
  /\ now < MaxClock
  /\ now' = now + 1
  /\ UNCHANGED <<activeCalls, heap, calls, callMessages, campaignExists, turn,
                 comp, timers, counters>>

\* storage.updateCall(id, partialFields): fields given as undefined are left alone
UpdateContact(rec, whatsapp, email) ==
  [rec EXCEPT !.extractedWhatsapp = IF whatsapp # "" THEN whatsapp ELSE @,
              !.extractedEmail = IF email # "" THEN email ELSE @]

\* ------------------------------------------------- processSpeechInput
\* the exception leaves processSpeechInput: no directive is returned
Caught_Escapes(t, tr, what) ==
  [tr EXCEPT ![t].pc = "done", ![t].failed = what, ![t].dbCall = NoRecord,
               ![t].genHistory = <<>>, ![t].contactInfo = NoContact,
               ![t].twiml = NoTwiml, ![t].success = FALSE]

\* the outer catch of processSpeechInput; it touches no state of the program, so
\* it is taken together with the awaited call that threw
Caught(t, tr, what) ==
  [tr EXCEPT ![t].pc = "done", ![t].failed = what, ![t].dbCall = NoRecord,
               ![t].genHistory = <<>>, ![t].contactInfo = NoContact,
               ![t].twiml = HangupText(CaughtApology), ![t].success = FALSE]

\* the two early returns: call not resumable, campaign missing
EndGeneric(t, what) ==
  [turn EXCEPT ![t].pc = "done", ![t].failed = what, ![t].dbCall = NoRecord,
               ![t].twiml = HangupText(GenericClosing), ![t].success = FALSE]

\* invocations are interchangeable: a new one takes the lowest slot that is not running
Free(pc) == pc \in {"idle", "done"}
FreeSlot(t) == Free(turn[t].pc) /\ \A s \in TurnIds : s < t => ~Free(turn[s].pc)

\* await storage.getCampaign(activeCall.campaignId): found, missing, or an exception.
\* The campaign store does not change during a behaviour, so the read is taken
\* together with the synchronous segment that issues it.
AwaitCampaign(t, tr) ==
  \/ turn' = [tr EXCEPT ![t].pc = "campaignResume",
                        ![t].failed = IF campaignExists THEN "" ELSE "noCampaign"]
  \/ turn' = Caught(t, tr, "getCampaign")

\* entry of processSpeechInput, called by the handler of a route ("" when the
\* caller is left open): this.activeCalls.get(callId), then getCall or
\* getCampaign is issued
ProcessSpeechInput(t, c, u, route) ==
  LET tr == [turn EXCEPT ![t] =
               [IdleTurn EXCEPT !.route = route, !.callId = c, !.speechText = u,
                                !.activeCall = activeCalls[c]]]
  IN IF activeCalls[c] = 0
       THEN turn' = [tr EXCEPT ![t].pc = "reconIO"]
       ELSE AwaitCampaign(t, tr)

\* an invocation of processSpeechInput with an utterance
TurnStart(t, c, u, limit) ==
  /\ FreeSlot(t)
  /\ counters.turnsStarted < limit
  /\ counters' = [counters EXCEPT !.turnsStarted = @ + 1, !.lastFinished = ""]
  /\ ProcessSpeechInput(t, c, u, "")
  /\ UNCHANGED <<activeCalls, heap, calls, callMessages, campaignExists, comp,
                 timers, now>>

\* await storage.getCall(callId) of the reconstruction: it returns or throws
TurnReconIO(t) ==
  /\ turn[t].pc = "reconIO"
  /\ \/ turn' = [turn EXCEPT ![t].pc = "reconResume",
                             ![t].dbCall = calls[turn[t].callId]]
     \/ turn' = Caught(t, turn, "getCall")
  /\ UNCHANGED <<activeCalls, heap, calls, callMessages, campaignExists, comp,
                 timers, now, counters>>

\* a record of any status taken for a resumable one
Resumable_AnyRecord(dbCall) == dbCall.status # "missing"

\* dbCall && dbCall.status === 'active'
Resumable(dbCall) == dbCall.status = "active"

\* the session is built and used, but not put into the registry
Registered_Skipped(c, ref) == activeCalls

\* this.activeCalls.set(callId, activeCall)
Registered(c, ref) == [activeCalls EXCEPT ![c] = ref]

\* reconstruction: register a new session, or return the generic hangup
TurnReconResume(t) ==
  /\ turn[t].pc = "reconResume"
  /\ IF Resumable(turn[t].dbCall)
       THEN /\ heap' = Append(heap, NewSession(turn[t].callId, turn[t].dbCall.startTime))
            /\ activeCalls' = Registered(turn[t].callId, Len(heap) + 1)
            /\ AwaitCampaign(t, [turn EXCEPT ![t].activeCall = Len(heap) + 1,
                                             ![t].dbCall = NoRecord,
                                             ![t].reconstructed = TRUE])
       ELSE /\ turn' = EndGeneric(t, "notResumable")
            /\ UNCHANGED <<heap, activeCalls>>
  /\ UNCHANGED <<calls, callMessages, campaignExists, comp, timers, now, counters>>

\* the caller turn is pushed and the invocation goes on without a campaign
TurnCampaignResume_IgnoresMissing(t) ==
  /\ turn[t].pc = "campaignResume"
  /\ heap' = [heap EXCEPT ![turn[t].activeCall].conversationHistory =
                Append(@, Turn("user", turn[t].speechText))]
  /\ turn' = [turn EXCEPT ![t].pc = "callFetchIO", ![t].appended = TRUE,
                ![t].contactInfo = ExtractContactInfo(turn[t].speechText)]
  /\ UNCHANGED <<activeCalls, calls, callMessages, campaignExists, comp, timers,
                 now, counters>>

\* campaign check, push of the caller turn, extractContactInfo, getCall is issued
TurnCampaignResume(t) ==
  /\ turn[t].pc = "campaignResume"
  /\ IF turn[t].failed = "noCampaign"
       THEN /\ turn' = EndGeneric(t, "noCampaign")
            /\ UNCHANGED heap
       ELSE /\ heap' = [heap EXCEPT ![turn[t].activeCall].conversationHistory =
                          Append(@, Turn("user", turn[t].speechText))]
            /\ turn' = [turn EXCEPT ![t].pc = "callFetchIO", ![t].appended = TRUE,
                          ![t].contactInfo = ExtractContactInfo(turn[t].speechText)]
  /\ UNCHANGED <<activeCalls, calls, callMessages, campaignExists, comp, timers,
                 now, counters>>

\* await storage.getCall(callId) for the persisted contact fields
TurnCallFetchIO(t) ==
  /\ turn[t].pc = "callFetchIO"
  /\ \/ turn' = [turn EXCEPT ![t].pc = "callFetchResume",
                             ![t].dbCall = calls[turn[t].callId]]
     \/ turn' = Caught(t, turn, "getCall")
  /\ UNCHANGED <<activeCalls, heap, calls, callMessages, campaignExists, comp,
                 timers, now, counters>>

\* hasContactInfo: persisted value || value found in this utterance
MergeContact(dbCall, contactInfo) ==
  [whatsapp |-> Or(dbCall.extractedWhatsapp, contactInfo.whatsapp),
   email |-> Or(dbCall.extractedEmail, contactInfo.email)]

\* a failed generation is answered with the apology as the reply of the turn
AwaitGenerate_ApologyReply(t, tr) ==
  LET sent == SliceLast(heap[turn[t].activeCall].conversationHistory, HistoryWindow)
  IN \/ \E reply \in Replies :
          turn' = [tr EXCEPT ![t].pc = "genResume", ![t].genHistory = sent,
                             ![t].aiResponse = reply]
     \/ turn' = [tr EXCEPT ![t].pc = "genResume", ![t].genHistory = sent,
                           ![t].aiResponse = <<CaughtApology>>,
                           ![t].failed = "generate"]

\* await OpenAIService.generateResponse(speechText, script, history.slice(-4), ...):
\* the arguments are evaluated when it is called; it returns a reply or throws.
\* The generator touches no state of the program, so its answer is taken together
\* with the synchronous segment that calls it.
AwaitGenerate(t, tr) ==
  LET sent == SliceLast(heap[turn[t].activeCall].conversationHistory, HistoryWindow)
  IN \/ \E reply \in Replies :
          turn' = [tr EXCEPT ![t].pc = "genResume", ![t].genHistory = sent,
                             ![t].aiResponse = reply]
     \/ turn' = Caught(t, tr, "generate")

\* merge of persisted and new contact fields; updateCall or generateResponse is issued
TurnCallFetchResume(t) ==
  /\ turn[t].pc = "callFetchResume"
  /\ LET tr == [turn EXCEPT ![t].hasContactInfo =
                               MergeContact(turn[t].dbCall, turn[t].contactInfo),
                            ![t].dbCall = NoRecord, ![t].contactInfo = NoContact]
     IN IF turn[t].contactInfo.whatsapp # "" \/ turn[t].contactInfo.email # ""
          THEN turn' = [tr EXCEPT ![t].pc = "updateIO"]
          ELSE AwaitGenerate(t, tr)
  /\ UNCHANGED <<activeCalls, heap, calls, callMessages, campaignExists, comp,
                 timers, now, counters>>

\* await storage.updateCall(callId, {extractedWhatsapp, extractedEmail})
TurnUpdateIO(t) ==
  /\ turn[t].pc = "updateIO"
  /\ \/ /\ calls' = [calls EXCEPT ![turn[t].callId] =
                       UpdateContact(@, turn[t].hasContactInfo.whatsapp,
                                        turn[t].hasContactInfo.email)]
        /\ turn' = [turn EXCEPT ![t].pc = "updateResume"]
     \/ /\ turn' = Caught(t, turn, "updateCall")
        /\ UNCHANGED calls
  /\ UNCHANGED <<activeCalls, heap, callMessages, campaignExists, comp, timers,
                 now, counters>>

\* after the contact update: generateResponse is called
TurnUpdateResume(t) ==
  /\ turn[t].pc = "updateResume"
  /\ AwaitGenerate(t, turn)
  /\ UNCHANGED <<activeCalls, heap, calls, callMessages, campaignExists, comp,
                 timers, now, counters>>

\* the assistant turn is pushed to the session the registry holds now
TurnGenResume_PushesRegistered(t) ==
  /\ turn[t].pc = "genResume"
  /\ heap' = [heap EXCEPT ![activeCalls[turn[t].callId]].conversationHistory =
                Append(@, Turn("assistant", turn[t].aiResponse))]
  /\ turn' = [turn EXCEPT ![t].pc = "saveUserIO", ![t].replied = TRUE,
                          ![t].genHistory = <<>>]
  /\ UNCHANGED <<activeCalls, calls, callMessages, campaignExists, comp, timers,
                 now, counters>>

\* push of the assistant turn; the first createCallMessage is issued
TurnGenResume(t) ==
  /\ turn[t].pc = "genResume"
  /\ heap' = [heap EXCEPT ![turn[t].activeCall].conversationHistory =
                Append(@, Turn("assistant", turn[t].aiResponse))]
  /\ turn' = [turn EXCEPT ![t].pc = "saveUserIO", ![t].replied = TRUE,
                          ![t].genHistory = <<>>]
  /\ UNCHANGED <<activeCalls, calls, callMessages, campaignExists, comp, timers,
                 now, counters>>

\* a failed write of a turn aborts the invocation through the outer catch
SaveFailed_Rethrown(t, what) == Caught(t, turn, what)

\* catch (dbError): the failure is logged and the invocation goes on
SaveFailed(t, what) == [turn EXCEPT ![t].pc = "policy", ![t].failed = what]

\* the reply is written to the message log before the caller's utterance
TurnSaveUserIO_ReplyFirst(t) ==
  /\ turn[t].pc = "saveUserIO"
  /\ \/ /\ callMessages' = [callMessages EXCEPT ![turn[t].callId] =
                              Append(@, [role |-> "assistant", content |-> turn[t].aiResponse])]
        /\ turn' = [turn EXCEPT ![t].pc = "saveAsstIO"]
     \/ /\ turn' = SaveFailed(t, "saveUser")
        /\ UNCHANGED callMessages
  /\ UNCHANGED <<activeCalls, heap, calls, campaignExists, comp, timers, now,
                 counters>>

\* await storage.createCallMessage({role: 'user'}); a failure skips the second write
TurnSaveUserIO(t) ==
  /\ turn[t].pc = "saveUserIO"
  /\ \/ /\ callMessages' = [callMessages EXCEPT ![turn[t].callId] =
                              Append(@, [role |-> "user", content |-> turn[t].speechText])]
        /\ turn' = [turn EXCEPT ![t].pc = "saveAsstIO"]
     \/ /\ turn' = SaveFailed(t, "saveUser")
        /\ UNCHANGED callMessages
  /\ UNCHANGED <<activeCalls, heap, calls, campaignExists, comp, timers, now,
                 counters>>

\* await storage.createCallMessage({role: 'assistant'})
TurnSaveAsstIO(t) ==
  /\ turn[t].pc = "saveAsstIO"
  /\ \/ /\ callMessages' = [callMessages EXCEPT ![turn[t].callId] =
                              Append(@, [role |-> "assistant", content |-> turn[t].aiResponse])]
        /\ turn' = [turn EXCEPT ![t].pc = "policy"]
     \/ /\ turn' = SaveFailed(t, "saveAssistant")
        /\ UNCHANGED callMessages
  /\ UNCHANGED <<activeCalls, heap, calls, campaignExists, comp, timers, now,
                 counters>>

\* shouldEndCall is computed and ElevenLabsService.textToSpeech is called; the
\* synthesizer (and the write of the audio file) touches no state of the program,
\* so its outcome is taken together with this segment
TurnPolicy(t) ==
  /\ turn[t].pc = "policy"
  /\ LET n == Len(heap[turn[t].activeCall].conversationHistory)
         tr == [turn EXCEPT ![t].pc = "ttsResume",
                  ![t].shouldEndCall =
                     ShouldEndCall(turn[t].hasContactInfo, n, turn[t].aiResponse,
                                   turn[t].speechText)]
     IN \/ turn' = [tr EXCEPT ![t].ttsOk = TRUE]
        \/ turn' = [tr EXCEPT ![t].ttsOk = FALSE, ![t].failed = "synthesis"]
  /\ UNCHANGED <<activeCalls, heap, calls, callMessages, campaignExists, comp,
                 timers, now, counters>>

\* the directive with the caller kept on the line when synthesis fails
Directive_KeepListening(t) ==
  IF turn[t].shouldEndCall
    THEN IF turn[t].ttsOk THEN HangupAudio ELSE HangupText(SynthesisApology)
    ELSE GatherAudio(turn[t].callId)

\* the gather directive carries the callback of a fixed call
Directive_FirstCall(t) ==
  IF turn[t].ttsOk
    THEN IF turn[t].shouldEndCall THEN HangupAudio ELSE GatherAudio("c1")
    ELSE HangupText(SynthesisApology)

\* the directive: hangup or gather on the audio, or the apology hangup
Directive(t) ==
  IF turn[t].ttsOk
    THEN IF turn[t].shouldEndCall THEN HangupAudio ELSE GatherAudio(turn[t].callId)
    ELSE HangupText(SynthesisApology)

\* whether setTimeout(() => this.completeCall(callId), 1000) is called
SchedulesCompletion(t) == ~turn[t].ttsOk \/ turn[t].shouldEndCall

\* TwiML generation, setTimeout, broadcastCallUpdate (the broadcast is sent, or it
\* throws and its own catch logs the error), return {twiml, success: true}
TurnTtsResume(t) ==
  /\ turn[t].pc = "ttsResume"
  /\ \E ok \in BOOLEAN :
       turn' = [turn EXCEPT ![t].pc = "done", ![t].twiml = Directive(t),
                            ![t].success = TRUE, ![t].broadcastOk = ok]
  /\ timers' = [timers EXCEPT ![turn[t].callId] =
                  IF SchedulesCompletion(t) THEN @ + 1 ELSE @]
  /\ UNCHANGED <<activeCalls, heap, calls, callMessages, campaignExists, comp,
                 now, counters>>

TurnStep(t) ==
  \/ TurnReconIO(t) \/ TurnReconResume(t)
  \/ TurnCampaignResume(t)
  \/ TurnCallFetchIO(t) \/ TurnCallFetchResume(t)
  \/ TurnUpdateIO(t) \/ TurnUpdateResume(t)
  \/ TurnGenResume(t)
  \/ TurnSaveUserIO(t) \/ TurnSaveAsstIO(t)
  \/ TurnPolicy(t)
  \/ TurnTtsResume(t)

\* --------------------------------------------------------------- startCall
\* return {success: false, error}: from the early returns and from the catch
StartFailed(t, what) ==
  [turn EXCEPT ![t].pc = "done", ![t].failed = what, ![t].success = FALSE]

\* entry of startCall: await storage.getCampaign(campaignId), then createCall is
\* issued.  createCall gives every call an id of its own, so startCall
\* invocations share no state and one at a time is followed.
StartCall(t) ==
  /\ FreeSlot(t)
  /\ \E c \in DOMAIN calls : calls[c].status = "missing"
  /\ \A s \in TurnIds : turn[s].route = "startCall" => Free(turn[s].pc)
  /\ LET tr == [turn EXCEPT ![t] = [IdleTurn EXCEPT !.route = "startCall"]]
     IN \/ /\ campaignExists
           /\ turn' = [tr EXCEPT ![t].pc = "createIO"]
        \/ /\ ~campaignExists
           /\ turn' = [tr EXCEPT ![t].pc = "done", ![t].failed = "noCampaign"]
        \/ turn' = [tr EXCEPT ![t].pc = "done", ![t].failed = "getCampaign"]
  /\ UNCHANGED <<activeCalls, heap, calls, callMessages, campaignExists, comp,
                 timers, now, counters>>

\* await storage.createCall({..., status: 'active', startTime: new Date()}): the
\* record is created under a new id, or the call throws
StartCreateIO(t) ==
  /\ turn[t].pc = "createIO"
  /\ \/ \E c \in DOMAIN calls :
          /\ calls[c].status = "missing"
          /\ calls' = [calls EXCEPT ![c] = [NewRecord("active") EXCEPT !.startTime = now]]
          /\ turn' = [turn EXCEPT ![t].pc = "initiateIO", ![t].callId = c]
     \/ /\ turn' = StartFailed(t, "createCall")
        /\ UNCHANGED calls
  /\ UNCHANGED <<activeCalls, heap, callMessages, campaignExists, comp, timers,
                 now, counters>>

\* await twilioService.initiateCall(phoneNumber, campaignId, newCall.id): the
\* provider accepts the call, refuses it ({success: false}), or the call throws
StartInitiateIO(t) ==
  /\ turn[t].pc = "initiateIO"
  /\ \/ turn' = [turn EXCEPT ![t].pc = "sidIO"]
     \/ turn' = [turn EXCEPT ![t].pc = "refusedIO"]
     \/ turn' = StartFailed(t, "initiateCall")
  /\ UNCHANGED <<activeCalls, heap, calls, callMessages, campaignExists, comp,
                 timers, now, counters>>

\* await storage.updateCall(newCall.id, {status: 'failed'}), then the failure is
\* returned; or the write throws
StartRefusedIO(t) ==
  /\ turn[t].pc = "refusedIO"
  /\ \/ /\ calls' = [calls EXCEPT ![turn[t].callId].status = "failed"]
        /\ turn' = StartFailed(t, "refused")
     \/ /\ turn' = StartFailed(t, "updateCall")
        /\ UNCHANGED calls
  /\ UNCHANGED <<activeCalls, heap, callMessages, campaignExists, comp, timers,
                 now, counters>>

\* await storage.updateCall(newCall.id, {twilioCallSid}): the provider's id is
\* not part of the modelled record; the write returns or throws
StartSidIO(t) ==
  /\ turn[t].pc = "sidIO"
  /\ \/ turn' = [turn EXCEPT ![t].pc = "registerResume"]
     \/ turn' = StartFailed(t, "updateCall")
  /\ UNCHANGED <<activeCalls, heap, calls, callMessages, campaignExists, comp,
                 timers, now, counters>>

\* this.activeCalls.set(newCall.id, {..., conversationHistory: [],
\* startTime: new Date()}); return {success: true, callId}
StartRegisterResume(t) ==
  /\ turn[t].pc = "registerResume"
  /\ heap' = Append(heap, NewSession(turn[t].callId, now))
  /\ activeCalls' = Registered(turn[t].callId, Len(heap) + 1)
  /\ turn' = [turn EXCEPT ![t].pc = "done", ![t].success = TRUE]
  /\ UNCHANGED <<calls, callMessages, campaignExists, comp, timers, now, counters>>

StartStep(t) ==
  \/ StartCreateIO(t) \/ StartInitiateIO(t)
  \/ StartRefusedIO(t) \/ StartSidIO(t)
  \/ StartRegisterResume(t)

\* ------------------------------------------------------------ webhook routes
\* the response of a handler that ends without calling processSpeechInput
Responded(t, c, route, u, what, twiml) ==
  [turn EXCEPT ![t] = [IdleTurn EXCEPT !.pc = "done", !.route = route, !.callId = c,
                                       !.speechText = u, !.failed = what,
                                       !.twiml = twiml]]

\* the two webhooks that start the conversation
HookRoutes == {"answer", "intro"}

\* POST /api/calls/webhook/answer reads the campaign first (404 when it is
\* missing, the error hangup when the read throws); POST /api/calls/webhook
\* starts with storage.getCall
WebhookStart(t, c, route, limit) ==
  /\ FreeSlot(t)
  /\ counters.hooksStarted < limit
  /\ counters' = [counters EXCEPT !.hooksStarted = @ + 1]
  /\ \/ /\ route = "intro" \/ campaignExists
        /\ turn' = [turn EXCEPT ![t] = [IdleTurn EXCEPT !.pc = "trackIO",
                                                          !.route = route, !.callId = c]]
     \/ /\ route = "answer" /\ ~campaignExists
        /\ turn' = Responded(t, c, route, <<>>, "noCampaign", NoTwiml)
     \/ /\ route = "answer"
        /\ turn' = Responded(t, c, route, <<>>, "getCampaign", HangupText(AnswerError))
  /\ UNCHANGED <<activeCalls, heap, calls, callMessages, campaignExists, comp,
                 timers, now>>

\* const dbCall = await storage.getCall(callId): it returns or throws (the
\* error hangup of the answer webhook, status 500 of the other)
WebhookTrackIO(t) ==
  /\ turn[t].pc = "trackIO"
  /\ \/ turn' = [turn EXCEPT ![t].pc = "trackResume",
                             ![t].dbCall = calls[turn[t].callId]]
     \/ turn' = Responded(t, turn[t].callId, turn[t].route, <<>>, "getCall",
                          IF turn[t].route = "answer" THEN HangupText(AnswerError)
                                                      ELSE NoTwiml)
  /\ UNCHANGED <<activeCalls, heap, calls, callMessages, campaignExists, comp,
                 timers, now, counters>>

\* CallManager.ensureCallIsTracked: a session with an empty history is
\* registered unless the registry has one
EnsureCallIsTracked(c, dbCall) ==
  IF activeCalls[c] = 0
    THEN /\ heap' = Append(heap, NewSession(c, dbCall.startTime))
         /\ activeCalls' = Registered(c, Len(heap) + 1)
    ELSE UNCHANGED <<heap, activeCalls>>

\* if (dbCall && dbCall.status === 'active') ensureCallIsTracked(callId, dbCall);
\* then the intro is synthesised and the gather directive is returned.  The
\* answer webhook hangs up when the synthesis fails; the other webhook reads the
\* campaign here (404, 500) and falls back to the spoken text.  The campaign
\* store and the synthesizer touch no state of the program, so they are taken
\* together with this segment.
WebhookTrackResume(t) ==
  /\ turn[t].pc = "trackResume"
  /\ IF Resumable(turn[t].dbCall)
       THEN EnsureCallIsTracked(turn[t].callId, turn[t].dbCall)
       ELSE UNCHANGED <<heap, activeCalls>>
  /\ LET c == turn[t].callId
         r == turn[t].route
     IN \/ /\ r = "answer" \/ campaignExists
           /\ \/ turn' = Responded(t, c, r, <<>>, "", GatherAudio(c))
              \/ turn' = Responded(t, c, r, <<>>, "synthesis",
                                   IF r = "answer" THEN HangupText(IntroApology)
                                                   ELSE GatherText("intro", c))
        \/ /\ r = "intro" /\ ~campaignExists
           /\ turn' = Responded(t, c, r, <<>>, "noCampaign", NoTwiml)
        \/ /\ r = "intro"
           /\ turn' = Responded(t, c, r, <<>>, "getCampaign", NoTwiml)
  /\ UNCHANGED <<calls, callMessages, campaignExists, comp, timers, now, counters>>

WebhookStep(t) == WebhookTrackIO(t) \/ WebhookTrackResume(t)

\* directSpeechService.shouldEndCall(speechText): the service is not part of the
\* sources, so the utterances on which it holds are left open
DirectEndDecisions == BOOLEAN

\* POST /api/calls/:callId/process-speech.  heard is speechText after the
\* provider's recognition and the transcription fallback, whose exception is
\* swallowed (heard = <<>>).  Without speech the handler reads the record and
\* the campaign and re-prompts; on an utterance for which
\* directSpeechService.shouldEndCall holds it reads them and hangs up; otherwise
\* it calls processSpeechInput.  A read that throws ends in the catch of the route.  The
\* reads only pick the language of the directive, so they are taken together
\* with this segment.
ProcessSpeech(t, c, heard, limit) ==
  /\ FreeSlot(t)
  /\ counters.turnsStarted < limit
  /\ counters' = [counters EXCEPT !.turnsStarted = @ + 1, !.lastFinished = ""]
  /\ IF heard = <<>>
       THEN \/ turn' = Responded(t, c, "process-speech", heard, "noSpeech",
                                 GatherText(Reprompt, c))
            \/ turn' = Responded(t, c, "process-speech", heard, "getCall",
                                 HangupText(GenericClosing))
       ELSE \E ends \in DirectEndDecisions :
              IF ends
                THEN \/ turn' = Responded(t, c, "process-speech", heard, "directEnd",
                                          HangupText(DirectClosing))
                     \/ turn' = Responded(t, c, "process-speech", heard, "getCall",
                                          HangupText(GenericClosing))
                ELSE ProcessSpeechInput(t, c, heard, "process-speech")
  /\ UNCHANGED <<activeCalls, heap, calls, callMessages, campaignExists, comp,
                 timers, now>>

\* POST /api/calls/recording-complete: the recording is fetched and transcribed;
\* an exception of either ends in the catch of the route, and any text the
\* transcription returns, the empty one included, goes to processSpeechInput
RecordingComplete(t, c, heard, limit) ==
  /\ FreeSlot(t)
  /\ counters.turnsStarted < limit
  /\ counters' = [counters EXCEPT !.turnsStarted = @ + 1, !.lastFinished = ""]
  /\ \/ turn' = Responded(t, c, "recording-complete", <<>>, "transcription",
                          HangupText(GenericClosing))
     \/ ProcessSpeechInput(t, c, heard, "recording-complete")
  /\ UNCHANGED <<activeCalls, heap, calls, callMessages, campaignExists, comp,
                 timers, now>>

\* ------------------------------------------------------------ completeCall
FreeComp(k) == Free(comp[k].pc) /\ \A j \in CompIds : j < k => ~Free(comp[j].pc)

\* the catch of completeCall and of processPostCallActions: log and return
CompEnd(k, what) ==
  [comp EXCEPT ![k] = [IdleComp EXCEPT !.pc = "done", !.callId = comp[k].callId,
                                       !.origin = comp[k].origin,
                                       !.after = comp[k].after,
                                       !.wrote = comp[k].wrote, !.failed = what]]

\* how the completion that finishes has ended: the call was untracked, the status
\* write failed, or the status write was done
Finished(k) ==
  [counters EXCEPT !.lastFinished = IF comp[k].wrote THEN "wrote" ELSE "failed"]

\* duration || Math.floor((Date.now() - activeCall.startTime.getTime()) / 1000)
DurationToStore(duration, startTime) ==
  IF duration # -1 /\ duration # 0 THEN duration ELSE now - startTime

\* entry of completeCall without the untracked guard
CompEnter_WritesAnyway(k, c, duration, origin) ==
  comp' = [comp EXCEPT ![k] =
             [IdleComp EXCEPT !.pc = "statusIO", !.callId = c, !.origin = origin,
                              !.activeCall = activeCalls[c],
                              !.supplied = duration,
                              !.duration = DurationToStore(duration, now)]]

\* entry of completeCall: the untracked guard, then updateCall is issued
CompEnter(k, c, duration, origin) ==
  LET after == IF \A j \in CompIds : Free(comp[j].pc) THEN counters.lastFinished ELSE ""
  IN comp' = [comp EXCEPT ![k] =
       IF activeCalls[c] = 0
         THEN [IdleComp EXCEPT !.pc = "done", !.callId = c, !.origin = origin,
                               !.after = after, !.failed = "untracked"]
         ELSE [IdleComp EXCEPT !.pc = "statusIO", !.callId = c, !.origin = origin,
                               !.after = after, !.activeCall = activeCalls[c],
                               !.supplied = duration,
                               !.duration =
                                  DurationToStore(duration, heap[activeCalls[c]].startTime)]]

\* bookkeeping of an invocation of completeCall
Entered(c, cnt) ==
  [cnt EXCEPT !.completionsStarted = @ + 1,
              !.lastFinished = IF activeCalls[c] = 0 THEN "untracked" ELSE @]

\* the callback of setTimeout(() => this.completeCall(callId), 1000) runs
TimerFires(k, c) ==
  /\ FreeComp(k)
  /\ timers[c] > 0
  /\ timers' = [timers EXCEPT ![c] = @ - 1]
  /\ CompEnter(k, c, -1, "timer")
  /\ counters' = Entered(c, counters)
  /\ UNCHANGED <<activeCalls, heap, calls, callMessages, campaignExists, turn, now>>

\* POST /api/calls/webhook/status with CallStatus completed or failed
StatusEvent(k, c, duration) ==
  /\ FreeComp(k)
  /\ counters.statusEvents < MaxStatusEvents
  /\ counters' = Entered(c, [counters EXCEPT !.statusEvents = @ + 1])
  /\ CompEnter(k, c, duration, "status")
  /\ UNCHANGED <<activeCalls, heap, calls, callMessages, campaignExists, turn,
                 timers, now>>

\* the first write of completeCall stores the duration and leaves the status
CompStatusIO_KeepsStatus(k) ==
  /\ comp[k].pc = "statusIO"
  /\ \/ /\ calls' = [calls EXCEPT ![comp[k].callId].duration = comp[k].duration]
        /\ comp' = [comp EXCEPT ![k].pc = "statusResume", ![k].wrote = TRUE]
        /\ UNCHANGED counters
     \/ /\ comp' = CompEnd(k, "updateCall")
        /\ counters' = Finished(k)
        /\ UNCHANGED calls
  /\ UNCHANGED <<activeCalls, heap, callMessages, campaignExists, turn, timers, now>>

\* a failed status write removes the session from the registry
CompStatusIO_FailureUnregisters(k) ==
  /\ comp[k].pc = "statusIO"
  /\ \/ /\ calls' = [calls EXCEPT ![comp[k].callId].status = "completed",
                                  ![comp[k].callId].duration = comp[k].duration]
        /\ comp' = [comp EXCEPT ![k].pc = "statusResume", ![k].wrote = TRUE]
        /\ UNCHANGED <<counters, activeCalls>>
     \/ /\ comp' = CompEnd(k, "updateCall")
        /\ counters' = Finished(k)
        /\ activeCalls' = [activeCalls EXCEPT ![comp[k].callId] = 0]
        /\ UNCHANGED calls
  /\ UNCHANGED <<heap, callMessages, campaignExists, turn, timers, now>>

\* await storage.updateCall(callId, {status: 'completed', endTime, duration})
CompStatusIO(k) ==
  /\ comp[k].pc = "statusIO"
  /\ \/ /\ calls' = [calls EXCEPT ![comp[k].callId].status = "completed",
                                  ![comp[k].callId].duration = comp[k].duration]
        /\ comp' = [comp EXCEPT ![k].pc = "statusResume", ![k].wrote = TRUE]
        /\ UNCHANGED counters
     \/ /\ comp' = CompEnd(k, "updateCall")
        /\ counters' = Finished(k)
        /\ UNCHANGED calls
  /\ UNCHANGED <<activeCalls, heap, callMessages, campaignExists, turn, timers, now>>

\* the registry is cleared
Unregistered_All(c) == [d \in DOMAIN activeCalls |-> 0]

\* the session is left in the registry
Unregistered_Skipped(c) == activeCalls

\* this.activeCalls.delete(callId)
Unregistered(c) == [activeCalls EXCEPT ![c] = 0]

\* OpenAIService.generateResponse for the summary: a text, '' or an exception
SummaryOutcomes == {"summary", "", "throws"}

\* generateCallSummary whose catch returns the empty string
GenerateCallSummary_NoFallback(outcome) ==
  IF outcome = "throws" THEN "" ELSE outcome

\* generateCallSummary: the generator's answer, or the fallback of its catch
GenerateCallSummary(outcome) ==
  IF outcome = "throws" THEN SummaryFallback ELSE outcome

\* this.activeCalls.delete(callId), then generateCallSummary(history) is called;
\* the generator touches no state of the program, so its answer is taken
\* together with this segment
CompStatusResume(k) ==
  /\ comp[k].pc = "statusResume"
  /\ activeCalls' = Unregistered(comp[k].callId)
  /\ counters' = [counters EXCEPT !.summaryGenerations = @ + 1]
  /\ \E outcome \in SummaryOutcomes :
       LET summary == GenerateCallSummary(outcome)
       IN comp' = [comp EXCEPT ![k].summary = summary,
                               ![k].failed = IF outcome = "throws" THEN "summary" ELSE "",
                               ![k].pc = IF summary # "" THEN "summaryIO" ELSE "postStart"]
  /\ UNCHANGED <<heap, calls, callMessages, campaignExists, turn, timers, now>>

\* await storage.updateCall(callId, {conversationSummary: summary})
CompSummaryIO(k) ==
  /\ comp[k].pc = "summaryIO"
  /\ \/ /\ calls' = [calls EXCEPT ![comp[k].callId].conversationSummary = comp[k].summary]
        /\ comp' = [comp EXCEPT ![k].pc = "postStart", ![k].summary = ""]
        /\ UNCHANGED counters
     \/ /\ comp' = CompEnd(k, "updateCall")
        /\ counters' = Finished(k)
        /\ UNCHANGED calls
  /\ UNCHANGED <<activeCalls, heap, callMessages, campaignExists, turn, timers, now>>

\* processPostCallActions: extraction over the joined history; updateCall is issued
CompPostStart(k) ==
  /\ comp[k].pc = "postStart"
  /\ LET found == PostCallExtract(heap[comp[k].activeCall].conversationHistory)
     IN IF found.whatsapp # "" \/ found.email # ""
          THEN /\ comp' = [comp EXCEPT ![k].pc = "postIO", ![k].extracted = found]
               /\ UNCHANGED counters
          ELSE /\ comp' = CompEnd(k, "")
               /\ counters' = Finished(k)
  /\ UNCHANGED <<activeCalls, heap, calls, callMessages, campaignExists, turn,
                 timers, now>>

\* await storage.updateCall(callId, {extractedWhatsapp, extractedEmail})
CompPostIO(k) ==
  /\ comp[k].pc = "postIO"
  /\ \/ /\ calls' = [calls EXCEPT ![comp[k].callId] =
                       UpdateContact(@, comp[k].extracted.whatsapp, comp[k].extracted.email)]
        /\ IF comp[k].extracted.whatsapp # ""
             THEN /\ comp' = [comp EXCEPT ![k].pc = "sendIO"]
                  /\ UNCHANGED counters
             ELSE /\ comp' = CompEnd(k, "")
                  /\ counters' = Finished(k)
     \/ /\ comp' = CompEnd(k, "updateCall")
        /\ counters' = Finished(k)
        /\ UNCHANGED calls
  /\ UNCHANGED <<activeCalls, heap, callMessages, campaignExists, turn, timers, now>>

\* the record is marked as sent whatever the outcome of the send
CompSendIO_MarksAnyway(k) ==
  /\ comp[k].pc = "sendIO"
  /\ \/ /\ counters' = [counters EXCEPT !.followUpsSent = @ + 1]
        /\ comp' = [comp EXCEPT ![k].pc = "sentIO", ![k].sent = TRUE]
     \/ /\ comp' = [comp EXCEPT ![k].pc = "sentIO", ![k].failed = "send"]
        /\ UNCHANGED counters
  /\ UNCHANGED <<activeCalls, heap, calls, callMessages, campaignExists, turn,
                 timers, now>>

\* await twilioService.sendWhatsAppMessage(extractedWhatsapp, message):
\* sent, {success: false}, or an exception
CompSendIO(k) ==
  /\ comp[k].pc = "sendIO"
  /\ \/ /\ counters' = [counters EXCEPT !.followUpsSent = @ + 1]
        /\ comp' = [comp EXCEPT ![k].pc = "sentIO", ![k].sent = TRUE]
     \/ /\ comp' = CompEnd(k, "send")
        /\ counters' = Finished(k)
  /\ UNCHANGED <<activeCalls, heap, calls, callMessages, campaignExists, turn,
                 timers, now>>

\* await storage.updateCall(callId, {whatsappSent: true})
CompSentIO(k) ==
  /\ comp[k].pc = "sentIO"
  /\ \/ /\ calls' = [calls EXCEPT ![comp[k].callId].whatsappSent = TRUE]
        /\ comp' = CompEnd(k, "")
     \/ /\ comp' = CompEnd(k, "updateCall")
        /\ UNCHANGED calls
  /\ counters' = Finished(k)
  /\ UNCHANGED <<activeCalls, heap, callMessages, campaignExists, turn, timers, now>>

CompStep(k) ==
  \/ CompStatusIO(k) \/ CompStatusResume(k)
  \/ CompSummaryIO(k)
  \/ CompPostStart(k) \/ CompPostIO(k)
  \/ CompSendIO(k) \/ CompSentIO(k)

\* ---------------------------------------------------------- specifications
\* two processSpeechInput invocations at a time, no completion
NextTurns ==
  \/ \E t \in TurnIds, c \in CallIds, u \in FewUtterances : TurnStart(t, c, u, MaxTurns)
  \/ \E t \in TurnIds : TurnStep(t)

SpecTurns == Init /\ [][NextTurns]_vars

NoTurnRunning == \A t \in TurnIds : Free(turn[t].pc)
NoCompRunning == \A k \in CompIds : Free(comp[k].pc)

\* one processSpeechInput invocation after the other, no completion
NextSeq ==
  \/ \E c \in CallIds, u \in SeqUtterances :
       NoTurnRunning /\ TurnStart(1, c, u, MaxSeqTurns)
  \/ TurnStep(1)

SpecSeq == InitSeq /\ [][NextSeq]_vars

\* one processSpeechInput invocation, then completions from the timer and from
\* the provider's status events, which overlap
NextComplete ==
  \/ \E c \in CallIds, u \in FewUtterances :
       NoTurnRunning /\ NoCompRunning /\ TurnStart(1, c, u, MaxCompTurns)
  \/ TurnStep(1)
  \/ \E k \in CompIds, c \in CallIds : NoTurnRunning /\ TimerFires(k, c)
  \/ \E k \in CompIds, c \in CallIds, d \in Durations :
       NoTurnRunning /\ StatusEvent(k, c, d)
  \/ \E k \in CompIds : CompStep(k)

SpecComplete == Init /\ [][NextComplete]_vars

\* an entry of a session's history made at time 0
Past(role, content) == [role |-> role, content |-> content, timestamp |-> 0]

\* the histories a session holds when its completion starts: empty, no contact
\* details, a phone number and an address in the first of two caller turns, a
\* phone number in a reply only, an address only
PostHistories ==
  { <<>>,
    << Past("user", <<"hello">>), Past("assistant", <<"tell me more">>) >>,
    << Past("user", <<"98765 43210", "a@x.io">>), Past("assistant", <<"tell me more">>),
       Past("user", <<"hello">>), Past("assistant", <<"Goodbye">>) >>,
    << Past("user", <<"hello">>), Past("assistant", <<"call us on", "91234-56789">>) >>,
    << Past("user", <<"b@y.io">>), Past("assistant", <<"thank you for your time">>) >> }

RECURSIVE PersistedFrom(_)
\* the contact fields the turns of a history have persisted: per field, the
\* first value found in a caller turn
PersistedFrom(history) ==
  IF history = <<>> THEN NoContact
  ELSE LET first == IF Head(history).role = "user"
                      THEN ExtractContactInfo(Head(history).content)
                      ELSE NoContact
       IN MergeContact([extractedWhatsapp |-> first.whatsapp,
                        extractedEmail |-> first.email],
                       PersistedFrom(Tail(history)))

\* The conversation is over: the session holds its history and a completion may
\* have been scheduled by the last directive; or the call is not registered and
\* its record is active or completed.
InitPost ==
  /\ \E h \in PostHistories, tracked \in BOOLEAN, st \in {"active", "completed"},
        scheduled \in 0..1 :
       /\ tracked \/ h = <<>>
       /\ tracked => st = "active"
       /\ activeCalls = [c \in CallIds |-> IF tracked THEN 1 ELSE 0]
       /\ heap = IF tracked
                   THEN << [NewSession("c1", 0) EXCEPT !.conversationHistory = h] >>
                   ELSE <<>>
       /\ calls = [c \in CallIds |->
                     [NewRecord(st) EXCEPT
                        !.extractedWhatsapp = PersistedFrom(h).whatsapp,
                        !.extractedEmail = PersistedFrom(h).email]]
       /\ callMessages = [c \in CallIds |-> Logged(h)]
       /\ timers = [c \in CallIds |-> scheduled]
  /\ campaignExists = TRUE
  /\ turn = [t \in TurnIds |-> IdleTurn]
  /\ comp = [k \in CompIds |-> IdleComp]
  /\ now = 0
  /\ counters = NoCounters

\* completeCall invocations one after the other, from the timer and from the
\* provider's status events, on a call whose conversation is over, while the
\* wall clock advances
NextPost ==
  \/ \E k \in CompIds, c \in CallIds : NoCompRunning /\ TimerFires(k, c)
  \/ \E k \in CompIds, c \in CallIds, d \in Durations :
       NoCompRunning /\ StatusEvent(k, c, d)
  \/ \E k \in CompIds : CompStep(k)
  \/ Tick

SpecPost == InitPost /\ [][NextPost]_vars

\* Two calls have been started: c1 is registered, c2 is registered or was lost
\* in a restart; the record of each is active.
InitFrame ==
  /\ \E tracked \in BOOLEAN :
       /\ heap = << NewSession("c1", 0) >>
                   \o (IF tracked THEN << NewSession("c2", 0) >> ELSE <<>>)
       /\ activeCalls = [c \in FrameCallIds |->
                           IF c = "c1" THEN 1 ELSE IF tracked THEN 2 ELSE 0]
  /\ callMessages = [c \in FrameCallIds |-> <<>>]
  /\ calls = [c \in FrameCallIds |-> NewRecord("active")]
  /\ timers = [c \in FrameCallIds |-> 0]
  /\ campaignExists = TRUE
  /\ turn = [t \in TurnIds |-> IdleTurn]
  /\ comp = [k \in CompIds |-> IdleComp]
  /\ now = 0
  /\ counters = NoCounters

\* an invocation of processSpeechInput for one call and a completion of the
\* other call (started by the provider's status event), overlapping each other
NextFrame ==
  \/ \E c \in FrameCallIds :
       /\ NoTurnRunning
       /\ \A k \in CompIds : Free(comp[k].pc) \/ comp[k].callId # c
       /\ TurnStart(1, c, <<"98765 43210", "a@x.io">>, MaxFrameTurns)
  \/ TurnStep(1)
  \/ \E c \in FrameCallIds :
       /\ NoCompRunning
       /\ \A t \in TurnIds : Free(turn[t].pc) \/ turn[t].callId # c
       /\ StatusEvent(1, c, 7)
  \/ CompStep(1)

SpecFrame == InitFrame /\ [][NextFrame]_vars

\* an invocation of processSpeechInput and a completion of the same call (from
\* the provider's status event or from the timer), overlapping each other
NextOverlap ==
  \/ \E c \in CallIds, u \in FewUtterances :
       NoTurnRunning /\ TurnStart(1, c, u, MaxCompTurns)
  \/ TurnStep(1)
  \/ \E c \in CallIds : NoCompRunning /\ StatusEvent(1, c, 7)
  \/ \E c \in CallIds : NoCompRunning /\ TimerFires(1, c)
  \/ CompStep(1)

SpecOverlap == Init /\ [][NextOverlap]_vars

\* no call has been started; the campaign exists or has been deleted
InitStart ==
  /\ calls = [c \in CallIds |-> NoRecord]
  /\ heap = <<>>
  /\ activeCalls = [c \in CallIds |-> 0]
  /\ callMessages = [c \in CallIds |-> <<>>]
  /\ timers = [c \in CallIds |-> 0]
  /\ campaignExists \in BOOLEAN
  /\ turn = [t \in TurnIds |-> IdleTurn]
  /\ comp = [k \in CompIds |-> IdleComp]
  /\ now = 0
  /\ counters = NoCounters

\* startCall, and the provider's answer and intro webhooks for the call, which
\* arrive while startCall is still running or after it
NextStart ==
  \/ \E t \in TurnIds : StartCall(t)
  \/ \E t \in TurnIds : StartStep(t)
  \/ \E t \in TurnIds, c \in CallIds, route \in HookRoutes :
       WebhookStart(t, c, route, MaxHooks)
  \/ \E t \in TurnIds : WebhookStep(t)

SpecStart == InitStart /\ [][NextStart]_vars

\* the speech webhooks of a call, one request after the other
NextRoutes ==
  \/ \E c \in CallIds, heard \in HeardTexts :
       NoTurnRunning /\ ProcessSpeech(1, c, heard, MaxRouteTurns)
  \/ \E c \in CallIds, heard \in HeardTexts :
       NoTurnRunning /\ RecordingComplete(1, c, heard, MaxRouteTurns)
  \/ TurnStep(1)

SpecRoutes == Init /\ [][NextRoutes]_vars

\* The call is tracked with a history, or untracked with an active or a
\* completed record; its campaign may have been deleted.
InitRace ==
  /\ \E h \in PostHistories, tracked \in BOOLEAN, st \in {"active", "completed"} :
       /\ tracked \/ h = <<>>
       /\ tracked => st = "active"
       /\ activeCalls = [c \in CallIds |-> IF tracked THEN 1 ELSE 0]
       /\ heap = IF tracked
                   THEN << [NewSession("c1", 0) EXCEPT !.conversationHistory = h] >>
                   ELSE <<>>
       /\ calls = [c \in CallIds |->
                     [NewRecord(st) EXCEPT
                        !.extractedWhatsapp = PersistedFrom(h).whatsapp,
                        !.extractedEmail = PersistedFrom(h).email]]
       /\ callMessages = [c \in CallIds |-> Logged(h)]
  /\ timers = [c \in CallIds |-> 0]
  /\ campaignExists \in BOOLEAN
  /\ turn = [t \in TurnIds |-> IdleTurn]
  /\ comp = [k \in CompIds |-> IdleComp]
  /\ now = 0
  /\ counters = NoCounters

\* the provider's webhooks for a call (answer, intro) overlap each other and the
\* completion that the provider's status event starts
NextRace ==
  \/ \E t \in TurnIds, c \in CallIds, route \in HookRoutes :
       WebhookStart(t, c, route, MaxHooks)
  \/ \E t \in TurnIds : WebhookStep(t)
  \/ \E k \in CompIds, c \in CallIds : NoCompRunning /\ StatusEvent(k, c, 7)
  \/ \E k \in CompIds : CompStep(k)

SpecRace == InitRace /\ [][NextRace]_vars

\* a completion has marked the call completed and no completion is running
CompletionFinished(c) ==
  /\ NoCompRunning
  /\ calls[c].status = "completed"
  /\ \E k \in CompIds : comp[k].pc = "done" /\ comp[k].callId = c /\ comp[k].wrote

\* the provider's webhooks overlap the completion of the call; an invocation
\* of processSpeechInput arrives after the completion has finished
NextResume ==
  \/ \E t \in TurnIds, c \in CallIds : WebhookStart(t, c, "answer", MaxHooks)
  \/ \E t \in TurnIds : WebhookStep(t)
  \/ \E c \in CallIds : NoCompRunning /\ StatusEvent(1, c, 7)
  \/ CompStep(1)
  \/ \E t \in TurnIds, c \in CallIds, u \in FewUtterances :
       CompletionFinished(c) /\ TurnStart(t, c, u, MaxCompTurns)
  \/ \E t \in TurnIds : TurnStep(t)

SpecResume == InitRace /\ [][NextResume]_vars

\* ------------------------------------------------------------------ claims
HasUserTurn(history, text) ==
  \E i \in 1..Len(history) : history[i].role = "user" /\ history[i].content = text

HasAgentTurn(history, text) ==
  \E i \in 1..Len(history) : history[i].role = "assistant" /\ history[i].content = text

IsPrefix(s, t) == Len(s) <= Len(t) /\ SubSeq(t, 1, Len(s)) = s

Chronological(history) ==
  \A i \in 1..(Len(history) - 1) : history[i].timestamp <= history[i + 1].timestamp

\* the history of the session the registry holds for call c
RegisteredHistory(c) == heap[activeCalls[c]].conversationHistory

\* the history of the session invocation t works on
OwnHistory(t) == heap[turn[t].activeCall].conversationHistory

ClosingPhrase(reply) ==
  \E i \in 1..Len(reply) : LowerTok(reply[i]) \in {"thank you for your time", "goodbye"}

OptOutPhrase(speech) ==
  \E i \in 1..Len(speech) : LowerTok(speech[i]) \in {"not interested", "hang up"}

\* C1: when two processSpeechInput invocations for one call id have overlapped and
\* both have appended their caller utterance, the history of the session the
\* registry holds for that call contains both utterances.
C1_NoLostUpdate ==
  \A t1, t2 \in TurnIds :
    ( /\ t1 # t2
      /\ turn[t1].pc = "done" /\ turn[t2].pc = "done"
      /\ turn[t1].appended /\ turn[t2].appended
      /\ turn[t1].callId = turn[t2].callId
      /\ turn[t1].speechText # turn[t2].speechText
      /\ activeCalls[turn[t1].callId] # 0 )
    => /\ HasUserTurn(RegisteredHistory(turn[t1].callId), turn[t1].speechText)
       /\ HasUserTurn(RegisteredHistory(turn[t1].callId), turn[t2].speechText)

\* a completeCall invocation that starts when no other is running and the one
\* before it (with no turn in between) has ended as one of `prev` finds the call
\* untracked, returns at once and has no effect
SecondInvocationIsNoOp(prev) ==
  \A k \in CompIds :
    (comp'[k] # comp[k] /\ comp'[k].after \in prev)
    => /\ comp'[k].pc = "done" /\ comp'[k].failed = "untracked"
       /\ UNCHANGED <<activeCalls, heap, calls, callMessages>>
       /\ counters'.summaryGenerations = counters.summaryGenerations
       /\ counters'.followUpsSent = counters.followUpsSent

C3_AtMostOnce ==
  counters.summaryGenerations <= 1 /\ counters.followUpsSent <= 1

\* C4: an invocation that found the registry empty and read a record of status
\* active registers a new session with an empty history under the call id and
\* works on it; it returns a gather or a hangup directive, and when nothing
\* between the campaign lookup and the reply fails it returns success with its
\* utterance and the reply in that session's history.
C4_Reconstruction ==
  [][\A t \in TurnIds :
       /\ ( /\ turn[t].pc = "reconResume" /\ turn'[t] # turn[t]
            /\ turn[t].dbCall.status = "active" )
          => LET c == turn[t].callId
                 ref == activeCalls'[c]
             IN /\ ref # 0 /\ ref \notin DOMAIN heap /\ ref \in DOMAIN heap'
                /\ heap'[ref].conversationHistory = <<>>
                /\ heap'[ref].id = c
                /\ turn'[t].activeCall = ref
                /\ turn'[t].reconstructed
       /\ ( /\ turn[t].pc # "done" /\ turn'[t].pc = "done" /\ turn'[t].reconstructed )
          => /\ turn'[t].twiml.kind \in {"gather", "hangup"}
             /\ turn'[t].replied
                => /\ turn'[t].success
                   /\ HasUserTurn(heap'[turn'[t].activeCall].conversationHistory,
                                  turn'[t].speechText)
                   /\ HasAgentTurn(heap'[turn'[t].activeCall].conversationHistory,
                                   turn'[t].aiResponse)
    ]_vars

\* a reconstructed invocation has returned a keep-listening directive
C4_Witness ==
  \E t \in TurnIds :
    /\ turn[t].pc = "done" /\ turn[t].reconstructed /\ turn[t].success
    /\ turn[t].twiml.kind = "gather"
    /\ activeCalls[turn[t].callId] = turn[t].activeCall

\* C5: an invocation that found the registry empty and read no record, or a
\* record of status completed or failed, returns the hangup with the generic
\* closing line; from its entry to its return it registers no session, appends
\* no turn, writes nothing to storage and schedules no completion.
C5_NotResumable ==
  [][\A t \in TurnIds :
       /\ ( /\ turn[t].pc = "reconResume" /\ turn'[t] # turn[t]
            /\ turn[t].dbCall.status \in {"missing", "completed", "failed"} )
          => /\ turn'[t].pc = "done"
             /\ turn'[t].twiml = HangupText(GenericClosing)
             /\ ~turn'[t].appended /\ ~turn'[t].reconstructed
             /\ UNCHANGED <<activeCalls, heap, calls, callMessages, timers>>
       /\ ( turn'[t] # turn[t] /\ turn'[t].pc \in {"reconIO", "reconResume"} )
          => UNCHANGED <<activeCalls, heap, calls, callMessages, timers>>
    ]_vars

\* an invocation for an untracked, completed call has returned the generic hangup
C5_Witness ==
  \E t \in TurnIds :
    /\ turn[t].pc = "done" /\ turn[t].failed = "notResumable"
    /\ calls[turn[t].callId].status = "completed"
    /\ activeCalls[turn[t].callId] = 0
    /\ turn[t].twiml = HangupText(GenericClosing)

\* C6 (stated as in the spec; the code violates it): from one state to the next,
\* the history of the session registered for a call id is extended at its end
\* only, and its timestamps are non-decreasing.
C6_AppendOnly ==
  [][\A c \in CallIds :
       (activeCalls[c] # 0 /\ activeCalls'[c] # 0)
       => /\ IsPrefix(RegisteredHistory(c), heap'[activeCalls'[c]].conversationHistory)
          /\ Chronological(heap'[activeCalls'[c]].conversationHistory)
    ]_vars

\* C7 (stated as in the spec; the code violates it): a contact field of the
\* record that holds a value keeps that value.
C7_FirstValueWins ==
  [][\A c \in CallIds :
       /\ calls[c].extractedWhatsapp # ""
          => calls'[c].extractedWhatsapp = calls[c].extractedWhatsapp
       /\ calls[c].extractedEmail # ""
          => calls'[c].extractedEmail = calls[c].extractedEmail
    ]_vars

\* the phone field is known to invocation t: in the record or in its utterance
KnownPhone(t) ==
  \/ calls[turn[t].callId].extractedWhatsapp # ""
  \/ \E i \in 1..Len(turn[t].speechText) : turn[t].speechText[i] \in PhoneTokens

\* the email field is known to invocation t: in the record or in its utterance
KnownEmail(t) ==
  \/ calls[turn[t].callId].extractedEmail # ""
  \/ \E i \in 1..Len(turn[t].speechText) : turn[t].speechText[i] \in EmailTokens

C11_AlwaysDirective ==
  \A t \in TurnIds :
    turn[t].pc = "done"
    => /\ turn[t].twiml.kind \in {"gather", "hangup"}
       /\ turn[t].twiml.say # ""
       /\ turn[t].twiml.kind = "gather" => turn[t].twiml.action = turn[t].callId

\* two overlapping invocations have returned, one after a failed storage call
\* or generation, the other after a failed synthesis and a failed broadcast
C11_Witness ==
  \E t1, t2 \in TurnIds :
    /\ turn[t1].pc = "done" /\ turn[t2].pc = "done"
    /\ turn[t1].failed \in {"getCall", "getCampaign", "updateCall", "generate"}
    /\ turn[t1].twiml = HangupText(CaughtApology)
    /\ ~turn[t2].ttsOk /\ ~turn[t2].broadcastOk /\ turn[t2].replied
    /\ turn[t2].twiml.kind = "hangup"

\* C12 (stated as in the spec; the code violates it): whenever an invocation
\* returns a hangup directive while the registry holds a session for its call, a
\* completion of that call is scheduled by it.
C12_EndSchedulesCompletion ==
  [][\A t \in TurnIds :
       ( /\ turn[t].pc # "done" /\ turn'[t].pc = "done"
         /\ turn'[t].twiml.kind = "hangup"
         /\ activeCalls'[turn'[t].callId] # 0 )
       => timers'[turn'[t].callId] = timers[turn'[t].callId] + 1
    ]_vars

\* the directive of an invocation whose reply was generated, as a function of
\* the termination policy and of the synthesizer's outcome only
ExpectedDirective(t) ==
  IF ~turn[t].ttsOk THEN HangupText(SynthesisApology)
  ELSE IF \/ /\ KnownPhone(t) /\ KnownEmail(t)
             /\ \/ Len(OwnHistory(t)) >= 8
                \/ ClosingPhrase(turn[t].aiResponse)
          \/ OptOutPhrase(turn[t].speechText)
         THEN HangupAudio
         ELSE GatherAudio(turn[t].callId)

\* C13: when the write of the caller turn or of the reply turn fails, the
\* invocation goes on; the session's history holds both turns, the message log
\* is left behind it, and the directive returned is the one the policy and the
\* synthesizer determine, as when the writes succeed.
C13_SaveFailureSwallowed ==
  [][\A t \in TurnIds :
       /\ ( /\ turn[t].pc \in {"saveUserIO", "saveAsstIO"}
            /\ turn'[t].failed \in {"saveUser", "saveAssistant"} )
          => /\ turn'[t].pc = "policy"
             /\ heap' = heap
             /\ HasUserTurn(OwnHistory(t), turn[t].speechText)
             /\ HasAgentTurn(OwnHistory(t), turn[t].aiResponse)
       /\ ( /\ turn[t].pc = "ttsResume" /\ turn'[t].pc = "done"
            /\ Len(callMessages[turn[t].callId]) < Len(OwnHistory(t)) )
          => /\ turn'[t].twiml = ExpectedDirective(t)
             /\ turn'[t].success
             /\ heap' = heap
    ]_vars

\* an invocation whose write of the caller turn failed has returned a gather
C13_Witness ==
  \E t \in TurnIds :
    /\ turn[t].pc = "done" /\ turn[t].failed = "saveUser"
    /\ Len(callMessages[turn[t].callId]) < Len(OwnHistory(t))
    /\ HasUserTurn(OwnHistory(t), turn[t].speechText)
    /\ HasAgentTurn(OwnHistory(t), turn[t].aiResponse)
    /\ turn[t].twiml = GatherAudio(turn[t].callId)

\* C14 (stated as in the spec; the code violates it): when the write of the
\* extracted contact fields fails, the invocation goes on to generate its reply
\* and does not return the hangup of the caught-error path.
C14_UpdateFailureSwallowed ==
  [][\A t \in TurnIds :
       (turn[t].pc = "updateIO" /\ turn'[t].failed = "updateCall")
       => /\ turn'[t].pc # "done"
          /\ turn'[t].twiml # HangupText(CaughtApology)
    ]_vars

\* the record of the call of completion k is completed and the call is unregistered
CompletedAndRemoved(k) ==
  /\ calls[comp[k].callId].status = "completed"
  /\ activeCalls[comp[k].callId] = 0

C16_UntrackedNoOp ==
  [][\A k \in CompIds :
       ( /\ counters'.completionsStarted # counters.completionsStarted
         /\ comp'[k] # comp[k]
         /\ activeCalls[comp'[k].callId] = 0 )
       => /\ comp'[k].pc = "done" /\ comp'[k].failed = "untracked"
          /\ UNCHANGED <<activeCalls, heap, calls, callMessages>>
          /\ counters'.summaryGenerations = counters.summaryGenerations
          /\ counters'.followUpsSent = counters.followUpsSent
    ]_vars

\* the first completeCall of an untracked call whose record is still active has
\* returned
C16_Witness ==
  \E k \in CompIds :
    /\ comp[k].pc = "done" /\ comp[k].failed = "untracked" /\ comp[k].after = ""
    /\ calls[comp[k].callId].status = "active"
    /\ calls[comp[k].callId].conversationSummary = ""
    /\ activeCalls[comp[k].callId] = 0

\* when the summary generator throws, completion takes the fallback string as
\* the summary and issues its write, the call being completed and unregistered
FallbackTaken(k) ==
  (comp[k].pc = "statusResume" /\ comp'[k].failed = "summary")
  => /\ comp'[k].pc = "summaryIO"
     /\ comp'[k].summary = SummaryFallback
     /\ calls'[comp[k].callId].status = "completed"
     /\ activeCalls'[comp[k].callId] = 0

\* the write of the fallback summary stores it and post-call processing starts
FallbackStored(k) ==
  /\ calls'[comp[k].callId].conversationSummary = SummaryFallback
  /\ calls'[comp[k].callId].status = "completed"
  /\ activeCalls'[comp[k].callId] = 0
  /\ comp'[k].pc = "postStart"

C18_SendFailure ==
  [][\A k \in CompIds :
       (comp[k].pc = "sendIO" /\ comp'[k].failed = "send")
       => /\ comp'[k].pc = "done"
          /\ counters'.followUpsSent = counters.followUpsSent
          /\ UNCHANGED <<calls, activeCalls, heap>>
          /\ calls'[comp[k].callId].status = "completed"
          /\ ~calls'[comp[k].callId].whatsappSent
          /\ activeCalls'[comp[k].callId] = 0
    ]_vars

\* a completion has ended on a failed send
C18_Witness ==
  \E k \in CompIds :
    /\ comp[k].pc = "done" /\ comp[k].failed = "send"
    /\ CompletedAndRemoved(k)
    /\ ~calls[comp[k].callId].whatsappSent
    /\ counters.followUpsSent = 0

\* a phone-like value occurs in some turn of the history
HasPhone(history) ==
  \E i \in 1..Len(history) :
    \E j \in 1..Len(history[i].content) : history[i].content[j] \in PhoneTokens

\* completion k is at the steps of a tracked call before the follow-up send
BeforeSend(k) == comp[k].pc \in {"statusIO", "statusResume", "summaryIO", "postStart", "postIO"}

C20_MissingCampaign ==
  [][\A t \in TurnIds :
       (turn[t].pc = "campaignResume" /\ turn[t].failed = "noCampaign" /\ turn'[t] # turn[t])
       => /\ turn'[t].pc = "done"
          /\ turn'[t].twiml = HangupText(GenericClosing)
          /\ ~turn'[t].success
          /\ ~turn'[t].appended /\ ~turn'[t].replied
          /\ turn'[t].aiResponse = <<>>
          /\ UNCHANGED <<activeCalls, heap, calls, callMessages, timers>>
    ]_vars

\* a tracked call whose campaign is missing has got the generic hangup
C20_Witness ==
  \E t \in TurnIds :
    /\ turn[t].pc = "done" /\ turn[t].failed = "noCampaign"
    /\ ~campaignExists
    /\ activeCalls[turn[t].callId] # 0
    /\ turn[t].twiml = HangupText(GenericClosing)

\* C22: the caller utterances of a call are appended to its history in the
\* order in which their webhook events were received, also when the later event
\* is received while the earlier one waits on an external call.  (Of two
\* invocations in flight together, the one in slot 1 was received first.)
C22_ReceiptOrder ==
  ( /\ counters.turnsStarted = 2
    /\ turn[1].appended /\ turn[2].appended
    /\ turn[1].activeCall = turn[2].activeCall
    /\ turn[1].speechText # turn[2].speechText )
  => \A i, j \in 1..Len(OwnHistory(1)) :
       ( /\ OwnHistory(1)[i].role = "user" /\ OwnHistory(1)[i].content = turn[1].speechText
         /\ OwnHistory(1)[j].role = "user" /\ OwnHistory(1)[j].content = turn[2].speechText )
       => i < j

\* the message an invocation writes for its caller's utterance
UserMessage(t) == [role |-> "user", content |-> turn[t].speechText]

\* C23: an invocation writes a message only after the generator has returned and
\* the reply has been appended: first the caller's message, then the reply's
\* (which is written only when the caller's is in the log); when the generation
\* fails the invocation ends without writing a message, and the caller turn
\* stays in the history.
C23_WritesAfterGeneration ==
  [][\A t \in TurnIds :
       /\ (turn'[t] # turn[t] /\ callMessages' # callMessages)
          => LET c == turn[t].callId
             IN /\ turn[t].replied
                /\ turn[t].pc \in {"saveUserIO", "saveAsstIO"}
                /\ turn[t].pc = "saveUserIO"
                     => callMessages'[c] = Append(callMessages[c], UserMessage(t))
                /\ turn[t].pc = "saveAsstIO"
                     => /\ callMessages'[c] =
                             Append(callMessages[c],
                                    [role |-> "assistant", content |-> turn[t].aiResponse])
                        /\ \E i \in 1..Len(callMessages[c]) :
                             callMessages[c][i] = UserMessage(t)
       /\ (turn'[t].failed = "generate" /\ turn[t].failed # "generate")
          => /\ callMessages' = callMessages
             /\ turn'[t].pc = "done"
             /\ HasUserTurn(heap'[turn[t].activeCall].conversationHistory,
                            turn[t].speechText)
    ]_vars

\* an invocation has written both messages of its turn, in this order
C23_Witness ==
  \E t \in TurnIds :
    /\ turn[t].pc = "policy" /\ turn[t].failed = ""
    /\ callMessages[turn[t].callId] =
         << UserMessage(t), [role |-> "assistant", content |-> turn[t].aiResponse] >>

\* C24: the history handed to the generator holds at most four turns and ends
\* with the caller utterance of the invocation.
C24_GeneratorWindow ==
  \A t \in TurnIds :
    turn[t].pc = "genResume"
    => /\ Len(turn[t].genHistory) <= HistoryWindow
       /\ turn[t].genHistory # <<>>
       /\ turn[t].genHistory[Len(turn[t].genHistory)].role = "user"
       /\ turn[t].genHistory[Len(turn[t].genHistory)].content = turn[t].speechText

\* C25: when the generator fails the invocation returns the hangup with the
\* fixed apology; no assistant turn is appended, the synthesizer is not called,
\* no completion is scheduled, and the caller turn stays in the history.
C25_GenerationFailure ==
  [][\A t \in TurnIds :
       (turn'[t].failed = "generate" /\ turn[t].failed # "generate")
       => /\ turn'[t].pc = "done"
          /\ turn'[t].twiml = HangupText(CaughtApology)
          /\ ~turn'[t].success
          /\ ~turn'[t].replied /\ ~turn'[t].ttsOk
          /\ HasUserTurn(heap[turn[t].activeCall].conversationHistory, turn[t].speechText)
          /\ UNCHANGED <<activeCalls, heap, calls, callMessages, timers>>
    ]_vars

\* an invocation whose generation failed has returned the apology hangup
C25_Witness ==
  \E t \in TurnIds :
    /\ turn[t].pc = "done" /\ turn[t].failed = "generate"
    /\ turn[t].appended
    /\ turn[t].twiml = HangupText(CaughtApology)
    /\ ~HasAgentTurn(OwnHistory(t), <<CaughtApology>>)

\* C28: once a completion has finished, every turn of the in-memory history of
\* the call is in the durable message log, also a turn whose write failed
\* during the conversation.
C28_Reconciled ==
  \A k \in CompIds :
    (comp[k].pc = "done" /\ comp[k].wrote /\ comp[k].failed = "")
    => \A s \in 1..Len(heap) :
         heap[s].id = comp[k].callId
         => \A i \in 1..Len(heap[s].conversationHistory) :
              \E j \in 1..Len(callMessages[comp[k].callId]) :
                callMessages[comp[k].callId][j] =
                  [role |-> heap[s].conversationHistory[i].role,
                   content |-> heap[s].conversationHistory[i].content]

\* C29: completeCall stores the duration it was given whenever one was given
\* (0 included), and the elapsed seconds only when none was given.
C29_SuppliedDuration ==
  \A k \in CompIds :
    comp[k].pc = "statusResume"
    => IF comp[k].supplied # -1
         THEN calls[comp[k].callId].duration = comp[k].supplied
         ELSE calls[comp[k].callId].duration \in 0..now

\* C21: while no completion of a call is in progress, the registry holds a
\* session of the call only if the status of its record is active.
C21_RegisteredOnlyIfActive ==
  \A c \in CallIds :
    (\A k \in CompIds : comp[k].callId = c => Free(comp[k].pc))
    => (activeCalls[c] # 0 => calls[c].status = "active")

\* the routes that transcribe the caller's speech
TranscribingRoutes == {"process-speech", "recording-complete"}

\* C26: when the transcription fails or yields no speech, the webhook answers
\* with a keep-listening directive, never with a hangup, and the history, the
\* registry and the record of the call are left as they were; on both routes
\* that transcribe.
C26_NoSpeechKeepsListening ==
  /\ \A t \in TurnIds :
       (turn[t].route \in TranscribingRoutes /\ turn[t].pc = "done"
          /\ turn[t].speechText = <<>>)
       => turn[t].twiml.kind = "gather"
  /\ \A t \in TurnIds :
       (turn[t].route \in TranscribingRoutes /\ turn[t].pc # "idle"
          /\ turn[t].speechText = <<>>)
       => ~turn[t].appended /\ ~turn[t].reconstructed

\* C30: every non-empty utterance that the process-speech webhook receives for
\* a resumable call is in the history as a caller turn when the request has
\* been answered, also when the webhook itself ends the call on it.
C30_UtteranceAppended ==
  \A t \in TurnIds :
    ( /\ turn[t].route = "process-speech" /\ turn[t].pc = "done"
      /\ turn[t].speechText # <<>>
      /\ Resumable(calls[turn[t].callId]) )
    => /\ activeCalls[turn[t].callId] # 0
       /\ HasUserTurn(RegisteredHistory(turn[t].callId), turn[t].speechText)

\* C27: a step of processSpeechInput or completeCall for one call id leaves the
\* registry entry, the sessions (and so the history), the record and the
\* message log of every other call id as they were.
C27_OtherCallsUntouched ==
  [][\A d \in FrameCallIds :
       ( /\ \A t \in TurnIds : turn'[t] # turn[t] => turn'[t].callId # d
         /\ \A k \in CompIds : comp'[k] # comp[k] => comp'[k].callId # d )
       => /\ activeCalls'[d] = activeCalls[d]
          /\ calls'[d] = calls[d]
          /\ callMessages'[d] = callMessages[d]
          /\ \A s \in 1..Len(heap') :
               heap'[s].id = d => (s <= Len(heap) /\ heap'[s] = heap[s])
    ]_vars

\* a turn of c1 has been appended and c2 has been completed, and c1 is still
\* registered with an active record
C27_Witness ==
  \E t \in TurnIds, k \in CompIds :
    /\ turn[t].pc = "done" /\ turn[t].callId = "c1" /\ turn[t].appended
    /\ comp[k].pc = "done" /\ comp[k].callId = "c2" /\ comp[k].wrote
    /\ calls["c2"].status = "completed" /\ activeCalls["c2"] = 0
    /\ calls["c1"].status = "active" /\ activeCalls["c1"] # 0

\* C35: when the write that marks the call completed fails, the completion ends
\* there: the session stays in the registry with its history, the record stays
\* active, no summary is generated and no follow-up is sent, so a later
\* completion finds the call as this one found it.
C35_StatusWriteFailure ==
  [][\A k \in CompIds :
       (comp[k].pc = "statusIO" /\ comp'[k].pc = "done" /\ comp'[k].failed = "updateCall")
       => /\ activeCalls'[comp[k].callId] = comp[k].activeCall
          /\ comp[k].activeCall # 0
          /\ calls'[comp[k].callId].status = "active"
          /\ UNCHANGED <<activeCalls, heap, calls, callMessages>>
          /\ counters'.summaryGenerations = counters.summaryGenerations
          /\ counters'.followUpsSent = counters.followUpsSent
          /\ ~comp'[k].sent /\ comp'[k].summary = ""
    ]_vars

\* a completion that followed a failed status write has completed the call
C35_Witness ==
  \E k \in CompIds :
    /\ comp[k].pc = "done" /\ comp[k].after = "failed" /\ comp[k].wrote
    /\ calls[comp[k].callId].status = "completed"
    /\ activeCalls[comp[k].callId] = 0

\* the number of turns of a role among the first n of a history
CountRole(history, n, role) == Cardinality({i \in 1..n : history[i].role = role})

\* C36: every prefix of the history of every session holds at least as many
\* caller turns as assistant turns, and an invocation that has appended its
\* reply has its caller turn in the same history.
C36_CallerTurnsLead ==
  /\ \A s \in 1..Len(heap) : \A n \in 0..Len(heap[s].conversationHistory) :
       CountRole(heap[s].conversationHistory, n, "user")
         >= CountRole(heap[s].conversationHistory, n, "assistant")
  /\ \A t \in TurnIds :
       (turn[t].replied /\ turn[t].route = "")
       => /\ turn[t].appended
          /\ HasUserTurn(OwnHistory(t), turn[t].speechText)
          /\ HasAgentTurn(OwnHistory(t), turn[t].aiResponse)

\* two overlapping invocations have appended both caller turns and then both
\* replies to one session
C36_Witness ==
  \E s \in 1..Len(heap) :
    /\ Len(heap[s].conversationHistory) = 4
    /\ heap[s].conversationHistory[2].role = "user"
    /\ heap[s].conversationHistory[3].role = "assistant"
    /\ turn[1].replied /\ turn[2].replied

\* C37: a gather directive that an invocation returns for a call carries the
\* callback of that call.
C37_OwnCallback ==
  \A t \in TurnIds :
    (turn[t].pc = "done" /\ turn[t].twiml.kind = "gather")
    => turn[t].twiml.action = turn[t].callId

\* gather directives have been returned for the second call while the first is
\* registered
C37_Witness ==
  \E t \in TurnIds :
    /\ turn[t].pc = "done" /\ turn[t].callId = "c2"
    /\ turn[t].twiml = GatherAudio("c2")
    /\ activeCalls["c1"] # 0

\* C32: for a call whose record is completed, no invocation returns a gather
\* directive and none writes a conversation message, also when the completion
\* has run while the invocation waited on an external call.
C32_NothingAfterCompleted ==
  [][\A t \in TurnIds :
       (turn'[t].callId \in DOMAIN calls /\ calls[turn'[t].callId].status = "completed")
       => /\ (turn[t].pc # "done" /\ turn'[t].pc = "done")
               => turn'[t].twiml.kind # "gather"
          /\ turn'[t] # turn[t] => callMessages' = callMessages
    ]_vars

\* C33: when startCall returns a failure, the registry holds no session of the
\* call and the record it created, if any, is not active; when it returns
\* success, a session with an empty history is registered under the returned id
\* and the record is active.
C33_StartCallOutcome ==
  [][\A t \in TurnIds :
       (turn'[t].route = "startCall" /\ turn[t].pc # "done" /\ turn'[t].pc = "done")
       => IF turn'[t].success
            THEN /\ activeCalls'[turn'[t].callId] # 0
                 /\ heap'[activeCalls'[turn'[t].callId]].conversationHistory = <<>>
                 /\ calls'[turn'[t].callId].status = "active"
            ELSE turn'[t].callId # ""
                 => /\ activeCalls'[turn'[t].callId] = 0
                    /\ calls'[turn'[t].callId].status # "active"
    ]_vars

\* C34: ensureCallIsTracked changes nothing when the registry has a session of
\* the call, and the registration at the end of startCall does not replace a
\* session that a webhook has registered.
C34_RegistrationKept ==
  [][\A t \in TurnIds :
       /\ (turn[t].pc = "trackResume" /\ turn'[t] # turn[t]
             /\ activeCalls[turn[t].callId] # 0)
          => UNCHANGED <<activeCalls, heap>>
       /\ (turn[t].pc = "registerResume" /\ turn'[t] # turn[t]
             /\ activeCalls[turn[t].callId] # 0)
          => activeCalls'[turn[t].callId] = activeCalls[turn[t].callId]
    ]_vars

\* C31: an invocation of processSpeechInput that begins after a completion has
\* marked the call completed appends no turn and registers no session, and it
\* returns a hangup directive.  (Under SpecResume an invocation begins only
\* then.)
C31_CompletedNotResumed ==
  \A t \in TurnIds :
    ( /\ turn[t].route = "" /\ turn[t].pc # "idle"
      /\ calls[turn[t].callId].status = "completed" )
    => /\ ~turn[t].appended /\ ~turn[t].reconstructed /\ ~turn[t].replied
       /\ turn[t].pc = "done" => turn[t].twiml.kind = "hangup"

====
